---- MODULE Spec2Model ----
(***************************************************************************)
(* Streamline seeding driver of pygimli.mplviewer.meshview (drawStreams,   *)
(* drawStreamLine_) over a small regular mesh, followed by the rendering   *)
(* of one streamline, the cell browser, the drawing helpers and the        *)
(* sidebar gallery of doc/sidebar_gallery.py, each with a specification    *)
(* of its own.                                                             *)
(*                                                                         *)
(* The mesh is a GridW x GridH grid of unit cells with its lower left      *)
(* corner at (ox, oy).  Cells are numbered row by row from 0; this is the  *)
(* iteration order of viewMesh.cells().  Coordinates are kept as integers  *)
(* scaled by Scale, so that the 100 sample points of np.linspace and the   *)
(* cell centres are exact.                                                 *)
(*                                                                         *)
(* pygimli.misc.streamline and the mesh library (findCell, leftCell,       *)
(* rightCell, findBoundaryByMarker, xmin .. ymax) are not part of the      *)
(* sources at hand; they are modelled from the specification text.         *)
(***************************************************************************)
EXTENDS Integers, Sequences, FiniteSets, TLC

\* ---------------------------------------------------------------- bounds
GridW == 2
GridH == 2
NBnd == 3

\* ------------------------------------------------------ program constants
NSamples == 100
maxSteps == 10000
MarkerFrom == 1
MarkerTo == 99
DefaultStartStream == 3

NCells == GridW * GridH
Cells == 0 .. (NCells - 1)
NoCell == -1
Scale == 2 * (NSamples - 1)

VARIABLES
    startStream,  \* the mode parameter of drawStreams
    quiver,       \* kwargs['quiver']
    field,        \* the data: which vector field is drawn
    ox, oy,       \* lower left corner of the mesh's bounding box
    boundaries,   \* the mesh's boundaries: [marker, left, right]
    valid,        \* per cell flag c.valid(): TRUE = no streamline yet
    pc,           \* position of drawStreams
    idx,          \* index of the running for loop
    cur,          \* tracer: the cell containing the current point
    path,         \* tracer: cells of the points emitted so far
    ret,          \* the loop that called drawStreamLine_
    lines,        \* history: the streamlines traced in this pass
    log,          \* history: one entry per seed candidate looked at
    markCount,    \* history: how often a cell was consumed by a tracer
    rend,         \* drawStreamLine_: one call and what it draws
    cbs,          \* the cell browsers and the browser cache
    hlp,          \* drawMeshBoundaries, drawModel, setData: one call
    gal           \* make_gallery: one run

vars == <<startStream, quiver, field, ox, oy, boundaries, valid, pc, idx,
          cur, path, ret, lines, log, markCount, rend, cbs, hlp, gal>>

\* a part of the program that is not running
Off == [pc |-> "off"]

\* ------------------------------------------------------------------ mesh
Col(c) == c % GridW
Row(c) == c \div GridW

Min(a, b) == IF a < b THEN a ELSE b

xmin == ox
xmax == ox + GridW
ymin == oy
ymax == oy + GridH

\* mesh.findCell(pos): the cell whose closed square contains the point; a
\* point on a shared edge belongs to the cell right of / above the edge.
findCell(x, y) ==
    IF /\ xmin * Scale <= x /\ x <= xmax * Scale
       /\ ymin * Scale <= y /\ y <= ymax * Scale
    THEN Min((y - ymin * Scale) \div Scale, GridH - 1) * GridW
         + Min((x - xmin * Scale) \div Scale, GridW - 1)
    ELSE NoCell

\* c.center()
center(c) == << (xmin + Col(c)) * Scale + Scale \div 2,
                (ymin + Row(c)) * Scale + Scale \div 2 >>

\* b.leftCell(), b.rightCell(): NoCell stands for None
leftCell(b) == b.left
rightCell(b) == b.right

\* mesh.findBoundaryByMarker(from, to): indices of the boundaries whose
\* marker lies in from .. to, in boundary order.
RECURSIVE findBoundaryByMarkerFrom(_, _, _)
findBoundaryByMarkerFrom(k, from, to) ==
    IF k > Len(boundaries) THEN << >>
    ELSE (IF from <= boundaries[k].marker /\ boundaries[k].marker <= to
          THEN << k >> ELSE << >>)
         \o findBoundaryByMarkerFrom(k + 1, from, to)

findBoundaryByMarker(from, to) == findBoundaryByMarkerFrom(1, from, to)

\* ----------------------------------------------------------------- field
Fields == {"zero", "east", "west", "north", "south", "rotate", "halfzero"}

\* Direction of the field in cell c: "Z" is zero magnitude.
Direction(f, c) ==
    CASE f = "zero" -> "Z"
      [] f = "east" -> "E"
      [] f = "west" -> "W"
      [] f = "north" -> "N"
      [] f = "south" -> "S"
      [] f = "halfzero" -> IF Col(c) = 0 THEN "Z" ELSE "W"
      [] f = "rotate" ->
            IF Row(c) = 0 /\ Col(c) < GridW - 1 THEN "E"
            ELSE IF Col(c) = GridW - 1 /\ Row(c) < GridH - 1 THEN "N"
            ELSE IF Row(c) = GridH - 1 /\ Col(c) > 0 THEN "W"
            ELSE "S"

Magnitude(f, c) == IF Direction(f, c) = "Z" THEN 0 ELSE 1

\* The point reached from the centre of c by one reported sample, and the
\* cell that contains it (NoCell: the point left the mesh).
Advance(f, c) ==
    LET p == center(c)
        d == Direction(f, c)
    IN  CASE d = "E" -> << p[1] + Scale, p[2] >>
          [] d = "W" -> << p[1] - Scale, p[2] >>
          [] d = "N" -> << p[1], p[2] + Scale >>
          [] d = "S" -> << p[1], p[2] - Scale >>
          [] OTHER -> p

NextCell(f, c) == LET q == Advance(f, c) IN findCell(q[1], q[2])

\* ---------------------------------------------------------------- tracer
\* a tracer that does not look at the field magnitude
CanAdvance_anyMagnitude(f, c, v, n) ==
    /\ NextCell(f, c) # NoCell
    /\ v[NextCell(f, c)]
    /\ n < maxSteps

\* streamline(mesh, data, startCoord, ...): one more sample is taken from
\* cell c, with flags v and n samples so far, unless the field magnitude
\* is zero, the new point is outside the mesh, the cell it falls into
\* already holds a streamline, or the step budget is used up.
CanAdvance(f, c, v, n) ==
    /\ Magnitude(f, c) # 0
    /\ NextCell(f, c) # NoCell
    /\ v[NextCell(f, c)]
    /\ n < maxSteps

\* The cells of the points of one whole tracing run that stands in cell c
\* with the points p emitted so far.
RECURSIVE TraceCells(_, _, _, _)
TraceCells(f, c, v, p) ==
    IF CanAdvance(f, c, v, Len(p))
    THEN TraceCells(f, NextCell(f, c), [v EXCEPT ![c] = FALSE],
                    Append(p, NextCell(f, c)))
    ELSE p

Range(s) == {s[i] : i \in 1 .. Len(s)}

\* ---------------------------------------------------------------- driver
\* a loop that forgets to move on
NextIndex_stuck(i) == i

\* for ... in ...: the loop moves on to its next element
NextIndex(i) == i + 1

\* the reset loops called with False
ResetValue_false == FALSE

\* the value c.setValid(..) is called with in the two reset loops
ResetValue == TRUE

\* np.linspace(lo, hi, n)[i], scaled
linspace(lo, hi, n, i) == lo * Scale + (i * (hi - lo) * Scale) \div (n - 1)

\* the seed point of sample i in mode 1 and in mode 2
Mode1Point(i) == << ((xmax - xmax) * Scale) \div 2,
                    linspace(ymin, ymax, NSamples, i) >>
Mode2Point(i) == << linspace(xmin, xmax, NSamples, i),
                    ((ymax - ymax) * Scale) \div 2 >>

\* the boundaries mode 3 iterates over
MarkedBoundaries == findBoundaryByMarker(MarkerFrom, MarkerTo)

\* the right cell tried first
BoundaryCell_rightFirst(b) ==
    IF rightCell(b) # NoCell THEN rightCell(b) ELSE leftCell(b)

\* c = b.leftCell(); if c is None: c = b.rightCell()
BoundaryCell(b) == IF leftCell(b) # NoCell THEN leftCell(b) ELSE rightCell(b)

\* number of seed candidates of the selected mode
NumSeeds ==
    CASE startStream \in {1, 2} -> NSamples
      [] startStream = 3 -> Len(MarkedBoundaries)
      [] OTHER -> 0

\* a seeding mode without the test of the flag
SeedEligible_always(c) == TRUE

\* if c.valid(): in the three seeding modes
SeedEligible(c) == valid[c]

\* a fallback loop that traces from no cell, from every cell, and one that
\* is a further branch of the if / elif chain of the modes
FallbackEligible_never(c) == FALSE
FallbackEligible_always(c) == TRUE
FallbackEligible_elif(c) == valid[c] /\ startStream \notin {1, 2, 3}

\* if c.valid(): in the fallback loop
FallbackEligible(c) == valid[c]

LogEntry(ph, i, p, c, t) ==
    [phase |-> ph, i |-> i, pt |-> p, cell |-> c,
     wasValid |-> (c # NoCell /\ valid[c]), traced |-> t]

meshUnchanged == UNCHANGED <<startStream, quiver, field, ox, oy, boundaries,
                            rend, cbs, hlp, gal>>

\* drawStreamLine_(ax, viewMesh, c, ...): streamline starts at c.center()
StartTrace(c, ph) ==
    /\ cur' = findCell(center(c)[1], center(c)[2])
    /\ path' = << findCell(center(c)[1], center(c)[2]) >>
    /\ ret' = ph
    /\ pc' = "trace"

NoTrace == UNCHANGED <<cur, path, ret>>

Begin ==
    /\ pc = "start"
    /\ ~quiver
    /\ pc' = "reset"
    /\ idx' = 0
    /\ UNCHANGED <<valid, lines, log, markCount>>
    /\ NoTrace /\ meshUnchanged

QuiverDraw ==
    /\ pc = "start"
    /\ quiver
    /\ pc' = "done"
    /\ UNCHANGED <<valid, idx, lines, log, markCount>>
    /\ NoTrace /\ meshUnchanged

ResetFlag ==
    /\ pc = "reset"
    /\ idx < NCells
    /\ valid' = [valid EXCEPT ![idx] = ResetValue]
    /\ idx' = NextIndex(idx)
    /\ UNCHANGED <<pc, lines, log, markCount>>
    /\ NoTrace /\ meshUnchanged

ResetDone ==
    /\ pc = "reset"
    /\ idx = NCells
    /\ pc' = "seed"
    /\ idx' = 0
    /\ UNCHANGED <<valid, lines, log, markCount>>
    /\ NoTrace /\ meshUnchanged

\* one iteration of the loop of mode 1 or 2
SeedSample ==
    /\ pc = "seed"
    /\ startStream \in {1, 2}
    /\ idx < NSamples
    /\ LET p == IF startStream = 1 THEN Mode1Point(idx) ELSE Mode2Point(idx)
           c == findCell(p[1], p[2])
           t == c # NoCell /\ SeedEligible(c)
       IN  /\ log' = Append(log, LogEntry("seed", idx, p, c, t))
           /\ IF t THEN StartTrace(c, "seed")
                   ELSE UNCHANGED pc /\ NoTrace
    /\ idx' = NextIndex(idx)
    /\ UNCHANGED <<valid, lines, markCount>>
    /\ meshUnchanged

\* one iteration of the loop of mode 3; c.valid() on None raises
SeedBoundary ==
    /\ pc = "seed"
    /\ startStream = 3
    /\ idx < Len(MarkedBoundaries)
    /\ LET k == MarkedBoundaries[idx + 1]
           c == BoundaryCell(boundaries[k])
           t == c # NoCell /\ SeedEligible(c)
       IN  /\ log' = Append(log, LogEntry("seed", k, << 0, 0 >>, c, t))
           /\ IF c = NoCell THEN pc' = "raised" /\ NoTrace
              ELSE IF t THEN StartTrace(c, "seed")
              ELSE UNCHANGED pc /\ NoTrace
    /\ idx' = NextIndex(idx)
    /\ UNCHANGED <<valid, lines, markCount>>
    /\ meshUnchanged

\* a seeding phase that ends with one more reset of the flags
SeedDone_reset ==
    /\ pc = "seed"
    /\ idx = NumSeeds
    /\ pc' = "fallback"
    /\ idx' = 0
    /\ valid' = [c \in DOMAIN valid |-> ResetValue]
    /\ UNCHANGED <<lines, log, markCount>>
    /\ NoTrace /\ meshUnchanged

SeedDone ==
    /\ pc = "seed"
    /\ idx = NumSeeds
    /\ pc' = "fallback"
    /\ idx' = 0
    /\ UNCHANGED <<valid, lines, log, markCount>>
    /\ NoTrace /\ meshUnchanged

\* one iteration of "start a stream from each unused cell"
Fallback ==
    /\ pc = "fallback"
    /\ idx < NCells
    /\ LET t == FallbackEligible(idx)
       IN  /\ log' = Append(log, LogEntry("fallback", idx, << 0, 0 >>, idx, t))
           /\ IF t THEN StartTrace(idx, "fallback")
                   ELSE UNCHANGED pc /\ NoTrace
    /\ idx' = NextIndex(idx)
    /\ UNCHANGED <<valid, lines, markCount>>
    /\ meshUnchanged

FallbackDone ==
    /\ pc = "fallback"
    /\ idx = NCells
    /\ pc' = "final"
    /\ idx' = 0
    /\ UNCHANGED <<valid, lines, log, markCount>>
    /\ NoTrace /\ meshUnchanged

FinalFlag ==
    /\ pc = "final"
    /\ idx < NCells
    /\ valid' = [valid EXCEPT ![idx] = ResetValue]
    /\ idx' = NextIndex(idx)
    /\ UNCHANGED <<pc, lines, log, markCount>>
    /\ NoTrace /\ meshUnchanged

FinalDone ==
    /\ pc = "final"
    /\ idx = NCells
    /\ pc' = "done"
    /\ UNCHANGED <<valid, idx, lines, log, markCount>>
    /\ NoTrace /\ meshUnchanged

\* the tracer emits one more sample; the cell it leaves holds a streamline
TraceAdvance ==
    /\ pc = "trace"
    /\ CanAdvance(field, cur, valid, Len(path))
    /\ valid' = [valid EXCEPT ![cur] = FALSE]
    /\ markCount' = [markCount EXCEPT ![cur] = @ + 1]
    /\ cur' = NextCell(field, cur)
    /\ path' = Append(path, NextCell(field, cur))
    /\ UNCHANGED <<pc, idx, ret, lines, log>>
    /\ meshUnchanged

\* the tracer stops; the cell it stands in holds a streamline
TraceStop ==
    /\ pc = "trace"
    /\ ~CanAdvance(field, cur, valid, Len(path))
    /\ valid' = [valid EXCEPT ![cur] = FALSE]
    /\ markCount' = [markCount EXCEPT ![cur] = @ + 1]
    /\ lines' = Append(lines, [seed |-> path[1], cells |-> path, phase |-> ret])
    /\ pc' = ret
    /\ UNCHANGED <<idx, cur, path, ret, log>>
    /\ meshUnchanged

\* ------------------------------------------------------------- the inputs
Markers == {0, MarkerFrom, MarkerTo, MarkerTo + 1}

\* The cells next to the k-th boundary of the mesh: an inner edge, an outer
\* edge with its cell on the right, an edge without cells, an outer edge
\* with its cell on the left, and so on.
Adjacency(k) ==
    CASE k % 4 = 1 -> [left |-> 0, right |-> NCells - 1]
      [] k % 4 = 2 -> [left |-> NoCell, right |-> 0]
      [] k % 4 = 3 -> [left |-> NoCell, right |-> NoCell]
      [] OTHER -> [left |-> NCells - 1, right |-> NoCell]

BoundaryLists ==
    { [k \in 1 .. NBnd |->
          [marker |-> m[k], left |-> Adjacency(k).left,
           right |-> Adjacency(k).right]] : m \in [1 .. NBnd -> Markers] }

NoMarkers == [k \in 1 .. NBnd |->
                 [marker |-> 0, left |-> Adjacency(k).left,
                  right |-> Adjacency(k).right]]

Origins == { << -1, 0 >>, << 1, 1 >>, << 0, -3 >>, << -1, -1 >> }

\* the flags a mesh may carry when drawStreams is called
InitialFlags == { [c \in Cells |-> TRUE], [c \in Cells |-> FALSE],
                  [c \in Cells |-> c = 0] }

\* Inputs the selected branch never reads are held at one value: the
\* bounding box matters to modes 1 and 2 only, the markers to mode 3 only.
Init ==
    /\ field \in Fields
    /\ valid \in InitialFlags
    /\ \/ /\ quiver = FALSE /\ startStream \in {1, 2}
          /\ \E o \in Origins : ox = o[1] /\ oy = o[2]
          /\ boundaries = NoMarkers
       \/ /\ quiver = FALSE /\ startStream = DefaultStartStream
          /\ ox = 0 /\ oy = 0
          /\ boundaries \in BoundaryLists
       \/ /\ quiver \in BOOLEAN /\ startStream = 4
          /\ ox = 0 /\ oy = 0
          /\ boundaries = NoMarkers
    /\ pc = "start"
    /\ idx = 0
    /\ cur = NoCell
    /\ path = << >>
    /\ ret = "none"
    /\ lines = << >>
    /\ log = << >>
    /\ markCount = [c \in Cells |-> 0]
    /\ rend = Off /\ cbs = Off /\ hlp = Off /\ gal = Off

Next ==
    \/ Begin \/ QuiverDraw
    \/ ResetFlag \/ ResetDone
    \/ SeedSample \/ SeedBoundary \/ SeedDone
    \/ Fallback \/ FallbackDone
    \/ FinalFlag \/ FinalDone
    \/ TraceAdvance \/ TraceStop

Spec == Init /\ [][Next]_vars

\* The driver is one sequential call: a step that can be taken is taken.
FairSpec == Spec /\ WF_vars(Next)

\* ------------------------------------------------------------ properties
\* the pass went through all of its loops and returned
PassDone == pc = "done" /\ ~quiver

\* the streamlines that hold a point in cell c
LinesThrough(c) == {i \in 1 .. Len(lines) : c \in Range(lines[i].cells)}

Covered == UNION {Range(lines[i].cells) : i \in 1 .. Len(lines)}

SeedEntries == {k \in 1 .. Len(log) : log[k].phase = "seed"}
FallbackEntries == {k \in 1 .. Len(log) : log[k].phase = "fallback"}

\* C1: after a full pass, in every mode, every cell was consumed by a
\* tracer exactly once and lies on exactly one streamline.
C1_EveryCellOnce ==
    PassDone =>
        \A c \in Cells :
            /\ markCount[c] = 1
            /\ Cardinality(LinesThrough(c)) = 1

\* a finished pass of mode 3 on a flowing field: streamlines from the
\* boundary seeds and from the fallback loop, one of them over several cells
C1_Witness ==
    /\ PassDone
    /\ startStream = 3
    /\ \E i, j \in 1 .. Len(lines) :
          /\ lines[i].phase = "seed"
          /\ lines[j].phase = "fallback"
          /\ Len(lines[j].cells) > 1

\* C2: a streamline is started only from a cell whose flag is still
\* unvisited, no cell is consumed by two streamlines and no cell is the
\* seed of two streamlines.
C2_OneStreamlinePerCell ==
    /\ \A k \in 1 .. Len(log) : log[k].traced => log[k].wasValid
    /\ \A c \in Cells : markCount[c] <= 1
    /\ \A i, j \in 1 .. Len(lines) :
          i # j => /\ lines[i].seed # lines[j].seed
                   /\ Range(lines[i].cells) \cap Range(lines[j].cells) = {}

\* two seed candidates (sample points of mode 1 or 2, marked boundaries of
\* mode 3) gave the same cell: the first was traced, the second was not
C2_Witness ==
    /\ PassDone
    /\ \E i, j \in SeedEntries :
          /\ i < j
          /\ log[i].cell # NoCell
          /\ log[i].cell = log[j].cell
          /\ log[i].traced
          /\ ~log[j].traced

\* The cells covered by the fallback loop run alone on field f: cell k is
\* the next cell of the iteration, v the flags, cov the cells covered.
RECURSIVE FallbackAlone(_, _, _, _)
FallbackAlone(f, k, v, cov) ==
    IF k = NCells THEN cov
    ELSE IF v[k]
         THEN LET p == TraceCells(f, k, v, << k >>)
              IN  FallbackAlone(f, k + 1,
                                [c \in Cells |-> v[c] /\ c \notin Range(p)],
                                cov \cup Range(p))
         ELSE FallbackAlone(f, k + 1, v, cov)

FallbackAloneCovered == FallbackAlone(field, 0, [c \in Cells |-> TRUE], {})

\* C3: a pass of mode 3 covers the same set of cells as the fallback loop
\* alone covers on the same mesh and field (and so does a pass whose
\* startStream selects no mode).
C3_CoverageModeIndependent ==
    (PassDone /\ startStream \notin {1, 2}) => Covered = FallbackAloneCovered

\* a finished pass of mode 3 whose partition differs from the one of the
\* fallback loop alone: it has a streamline seeded at a boundary
C3_Witness ==
    /\ PassDone
    /\ startStream = 3
    /\ \E i \in 1 .. Len(lines) : lines[i].phase = "seed"
    /\ \E i \in 1 .. Len(lines) : lines[i].phase = "fallback"
    /\ Covered = Cells

\* the seeding loop of the selected mode is over
SeedingOver == FallbackEntries # {} \/ pc \in {"fallback", "final"} \/ PassDone

\* C4: modes 1 and 2 take exactly 100 seed points, the varying coordinate
\* runs evenly from the minimum to the maximum of the bounding box, and the
\* fixed coordinate lies inside the bounding box.
C4_SeedLineInBox ==
    startStream \in {1, 2} =>
        /\ SeedingOver => Cardinality(SeedEntries) = NSamples
        /\ \A k \in SeedEntries :
              LET e == log[k]
                  n == NSamples - 1
              IN  IF startStream = 1
                  THEN /\ e.pt[2] * n = ymin * Scale * n
                                        + e.i * (ymax - ymin) * Scale
                       /\ xmin * Scale <= e.pt[1]
                       /\ e.pt[1] <= xmax * Scale
                  ELSE /\ e.pt[1] * n = xmin * Scale * n
                                        + e.i * (xmax - xmin) * Scale
                       /\ ymin * Scale <= e.pt[2]
                       /\ e.pt[2] <= ymax * Scale

\* C5: in mode 3 every seed candidate of the first phase comes from a
\* boundary with marker in 1..99, in boundary order, and is that boundary's
\* left cell if it has one and its right cell otherwise; once the phase is
\* over exactly the boundaries with marker in 1..99 have been looked at;
\* every streamline of the phase starts in such a candidate.
C5_BoundarySeeds ==
    startStream = 3 =>
        /\ \A k \in SeedEntries :
              LET b == boundaries[log[k].i]
              IN  /\ b.marker >= 1 /\ b.marker <= 99
                  /\ log[k].cell = (IF b.left # NoCell THEN b.left ELSE b.right)
        /\ \A j, k \in SeedEntries : j < k => log[j].i < log[k].i
        /\ SeedingOver =>
              {log[k].i : k \in SeedEntries}
                  = {j \in 1 .. Len(boundaries) :
                        boundaries[j].marker \in 1 .. 99}
        /\ \A i \in 1 .. Len(lines) :
              lines[i].phase = "seed" =>
                  \E k \in SeedEntries :
                      log[k].traced /\ log[k].cell = lines[i].seed

\* mode 3 is over: a boundary with both cells gave its left cell, a boundary
\* without left cell gave its right cell, a boundary with marker 100 gave
\* no candidate
C5_Witness ==
    /\ PassDone
    /\ startStream = 3
    /\ \E k \in SeedEntries :
          /\ boundaries[log[k].i].left # NoCell
          /\ boundaries[log[k].i].right # NoCell
          /\ boundaries[log[k].i].left # boundaries[log[k].i].right
          /\ log[k].traced
    /\ \E k \in SeedEntries :
          /\ boundaries[log[k].i].left = NoCell
          /\ log[k].cell = boundaries[log[k].i].right
    /\ \E j \in 1 .. Len(boundaries) :
          /\ boundaries[j].marker = 100
          /\ \A k \in SeedEntries : log[k].i # j

\* C6: the fallback loop looks at its first cell only after all seeds of
\* the selected mode have been looked at, goes through the cells in mesh
\* order, and traces from a cell exactly if the cell is unvisited when the
\* loop reaches it.
C6_FallbackAfterSeeding ==
    /\ \A j \in SeedEntries : \A k \in FallbackEntries : j < k
    /\ FallbackEntries # {} =>
          Cardinality(SeedEntries) =
              (CASE startStream \in {1, 2} -> 100
                 [] startStream = 3 ->
                        Cardinality({j \in 1 .. Len(boundaries) :
                                        boundaries[j].marker \in 1 .. 99})
                 [] OTHER -> 0)
    /\ \A k \in FallbackEntries :
          /\ log[k].cell = Cardinality({j \in FallbackEntries : j < k})
          /\ log[k].i = log[k].cell
          /\ log[k].traced <=> log[k].wasValid
    /\ \A i \in 1 .. Len(lines) :
          lines[i].phase = "fallback" =>
              \E k \in FallbackEntries :
                  log[k].traced /\ log[k].cell = lines[i].seed

\* after a seeding mode that traced something, the fallback loop skipped a
\* visited cell and traced from a later unvisited one
C6_Witness ==
    /\ PassDone
    /\ startStream \in {1, 2, 3}
    /\ \E k \in SeedEntries : log[k].traced
    /\ \E j, k \in FallbackEntries :
          j < k /\ ~log[j].traced /\ log[k].traced

\* C7: a seed for which no cell is found is skipped and nothing is raised.
C7_NoSeedRaises == pc # "raised"

\* C8 as stated: when the pass returns every cell is marked visited.
C8_AllVisitedAtEnd == PassDone => \A c \in Cells : ~valid[c]

\* C8, amended: every cell is unvisited (valid) when the seeding starts,
\* and every cell is unvisited (valid) again when the pass returns,
\* whatever the flags were before, whatever the mode and the field.
C8_AllUnvisitedAtEnd ==
    /\ (pc = "seed" /\ idx = 0) => \A c \in Cells : valid[c]
    /\ PassDone => \A c \in Cells : valid[c]

\* a pass that traced several streamlines over all cells has returned
C8_Witness ==
    /\ PassDone
    /\ Covered = Cells
    /\ Len(lines) > 1

\* the pass is over: it returned, or it raised
Ended == pc \in {"done", "raised"}

\* C9: every pass ends; a tracing run never has more points than the step
\* budget, and the tracer is called at most once per seed candidate plus
\* once per cell.
C9_PassTerminates ==
    /\ [](Len(path) <= maxSteps /\ Len(lines) <= NumSeeds + NCells)
    /\ <>Ended

\* a pass over the cyclic field returned, with a streamline that went
\* around until it met its own first cell
C9_Witness ==
    /\ PassDone
    /\ field = "rotate"
    /\ \E i \in 1 .. Len(lines) :
          LET cs == lines[i].cells
          IN  /\ Len(cs) > 1
              /\ NextCell(field, cs[Len(cs)]) = cs[1]

\* C10: on the field that is zero everywhere every streamline, finished or
\* in progress, is a single point.
C10_ZeroFieldSinglePoint ==
    field = "zero" =>
        /\ Len(path) <= 1
        /\ \A i \in 1 .. Len(lines) : Len(lines[i].cells) = 1

\* a finished pass on the zero field: one streamline per cell
C10_Witness ==
    /\ PassDone
    /\ field = "zero"
    /\ Len(lines) = NCells

\* ======================================================================
\* drawStreamLine_: the rendering of one streamline
\* ======================================================================
\* the seeding driver is not running
StreamsOff ==
    /\ startStream = DefaultStartStream /\ quiver = FALSE /\ field = "zero"
    /\ ox = 0 /\ oy = 0
    /\ boundaries = NoMarkers
    /\ valid = [c \in Cells |-> TRUE]
    /\ pc = "off" /\ idx = 0 /\ cur = NoCell /\ path = << >> /\ ret = "none"
    /\ lines = << >> /\ log = << >> /\ markCount = [c \in Cells |-> 0]

streamsUnchanged ==
    UNCHANGED <<startStream, quiver, field, ox, oy, boundaries, valid, pc,
                idx, cur, path, ret, lines, log, markCount>>

\* longest streamline handed to the renderer
MaxPts == 5

\* dropTol=0.0 in the signature of drawStreamLine_
DefaultDropTol == 0

Magnitudes == 0 .. 2
DropTols == DefaultDropTol .. 2
LineWidths == {1, 2}

\* the direction the points of the streamline are laid out in
Steps == { << 1, 0 >>, << 0, 1 >>, << -1, 1 >> }

SeqsUpTo(S, n) == UNION {[1 .. k -> S] : k \in 0 .. n}

\* the keyword arguments of the call of streamline
StreamlineArgs == {"mesh", "data", "startCoord", "dLengthSteps", "dataMesh",
                   "maxSteps", "verbose", "coords"}

\* a filter that also drops samples at the tolerance
WidthOf_atTol(m, lw, tol) == IF m <= tol THEN 0 ELSE lw

\* lwidths = RVector(len(v), linewidth); lwidths[find(v < dropTol)] = 0.0
WidthOf(m, lw, tol) == IF m < tol THEN 0 ELSE lw

lwidths(v, lw, tol) == [i \in 1 .. Len(v) |-> WidthOf(v[i], lw, tol)]

\* segments: one per pair of consecutive points
segments(x, y) ==
    [i \in 1 .. (Len(x) - 1) |-> << << x[i], y[i] >>, << x[i + 1], y[i + 1] >> >>]

\* a middle index rounded up
MidIndex_up(n) == (n + 1) \div 2

\* xmid = int(len(x) / 2), as an index of a Python list
MidIndex(n) == n \div 2

\* element k of a Python list (k counts from 0)
At(s, k) == s[k + 1]

\* the polygon of the direction arrow at the middle sample
ArrowPolygon(x, y) ==
    LET xmid == MidIndex(Len(x))
        ymid == MidIndex(Len(y))
        dx == At(x, xmid + 1) - At(x, xmid)
        dy == At(y, ymid + 1) - At(y, ymid)
        dx90 == 0 - dy
        dy90 == dx
    IN  << << At(x, xmid) + dx90 * 1, At(y, ymid) + dy90 * 1 >>,
           << At(x, xmid) + dx * 3, At(y, ymid) + dy * 3 >>,
           << At(x, xmid) - dx90 * 1, At(y, ymid) - dy90 * 1 >> >>

RenderInit ==
    /\ StreamsOff
    /\ cbs = Off /\ hlp = Off /\ gal = Off
    /\ \E v \in SeqsUpTo(Magnitudes, MaxPts), tol \in DropTols,
          lw \in LineWidths, d \in Steps :
          rend = [pc |-> "call", linewidth |-> lw, dropTol |-> tol,
                  traced |-> [x |-> [i \in 1 .. Len(v) |-> (i - 1) * d[1]],
                              y |-> [i \in 1 .. Len(v) |-> (i - 1) * d[2]],
                              v |-> v],
                  args |-> {}, x |-> << >>, y |-> << >>, v |-> << >>,
                  collections |-> << >>, patches |-> << >>,
                  result |-> "none"]

\* x, y, v = streamline(mesh, data, startCoord=c.center(), ...)
CallStreamline ==
    /\ rend.pc = "call"
    /\ rend' = [rend EXCEPT !.pc = "traced", !.args = StreamlineArgs,
                            !.x = rend.traced.x, !.y = rend.traced.y,
                            !.v = rend.traced.v]
    /\ streamsUnchanged /\ UNCHANGED <<cbs, hlp, gal>>

\* the rest of drawStreamLine_: the line collection and the arrow
DrawLine ==
    /\ rend.pc = "traced"
    /\ LET x == rend.x
           y == rend.y
           v == rend.v
           hasLines == Len(x) > 2
           hasArrow == Len(x) > 3 /\ At(v, MidIndex(Len(x))) > rend.dropTol
           coll == [segments |-> segments(x, y),
                    linewidths |-> lwidths(v, rend.linewidth, rend.dropTol)]
       IN  rend' = [rend EXCEPT
                      !.pc = "drawn",
                      !.collections = IF hasLines THEN << coll >> ELSE << >>,
                      !.patches = IF hasArrow THEN << ArrowPolygon(x, y) >>
                                              ELSE << >>,
                      !.result = IF hasLines THEN "lines" ELSE "none"]
    /\ streamsUnchanged /\ UNCHANGED <<cbs, hlp, gal>>

RenderNext == CallStreamline \/ DrawLine

RenderSpec == RenderInit /\ [][RenderNext]_vars

\* C11: the tracing call is not given dropTol and hands back all of its
\* samples; where a line collection is drawn, a sample has width 0 exactly
\* if its magnitude is strictly below dropTol and the given linewidth
\* otherwise; with the default dropTol no sample is suppressed.
C11_DropTolFiltersWidthsOnly ==
    /\ rend.pc \in {"traced", "drawn"} =>
          /\ "dropTol" \notin rend.args
          /\ rend.v = rend.traced.v
    /\ rend.pc = "drawn" =>
          \A k \in 1 .. Len(rend.collections) :
              LET w == rend.collections[k].linewidths
              IN  /\ Len(w) = Len(rend.traced.v)
                  /\ \A i \in 1 .. Len(w) :
                        /\ rend.traced.v[i] < rend.dropTol => w[i] = 0
                        /\ rend.traced.v[i] >= rend.dropTol
                              => w[i] = rend.linewidth
                        /\ rend.dropTol = 0 => w[i] = rend.linewidth

\* a drawn streamline with a suppressed sample, a sample exactly at the
\* tolerance that keeps its width, and a sample above it
C11_Witness ==
    /\ rend.pc = "drawn"
    /\ Len(rend.collections) = 1
    /\ \E i, j, k \in 1 .. Len(rend.traced.v) :
          /\ rend.traced.v[i] < rend.dropTol
          /\ rend.collections[1].linewidths[i] = 0
          /\ rend.traced.v[j] = rend.dropTol
          /\ rend.collections[1].linewidths[j] = rend.linewidth
          /\ rend.traced.v[k] > rend.dropTol

\* ======================================================================
\* CellBrowser and the browser cache
\* ======================================================================
\* number of browsers, number of cells of the browsed mesh, and the
\* longest cache followed
NBrowsers == 2
CbCells == 3
MaxCache == 2

Browsers == 1 .. NBrowsers
CbCellIds == 0 .. (CbCells - 1)

\* what setData / get_array can hand to a browser: no data, one value per
\* cell, or an array that cannot be indexed by the cell markers
DataKinds == {"none", "cells", "unmappable"}

\* a browser object that does not exist yet
NoBrowser ==
    [made |-> FALSE, connected |-> FALSE, data |-> "none", cellID |-> -1,
     textMade |-> FALSE, textVisible |-> FALSE, textCell |-> NoCell,
     highLight |-> NoCell,
     last |-> [kind |-> "none", before |-> -1, updated |-> FALSE,
               left |-> FALSE, cell |-> NoCell]]

\* a second cache object made on a later call
SingletonNew_fresh(n) == n + 1

\* CellBrowserCacheSingleton.__new__: number of cache objects after a call
SingletonNew(n) == IF n = 0 THEN 1 ELSE n

\* np.clip(a, lo, hi)
clip(a, lo, hi) == Min(IF a < lo THEN lo ELSE a, hi)

\* CellBrowser.hide (with removeHighlightCell)
hide(b) ==
    [b EXCEPT !.cellID = -1, !.textVisible = FALSE, !.highLight = NoCell]

\* CellBrowser.update: self.data[self.cellID] raises on data None, the
\* exception is caught and printed and nothing is changed
update(b) ==
    IF b.cellID > -1
    THEN IF b.data = "none" \/ b.cellID >= CbCells
         THEN b
         ELSE [b EXCEPT !.textMade = TRUE, !.textVisible = TRUE,
                        !.textCell = b.cellID, !.highLight = b.cellID]
    ELSE hide(b)

\* a click that always selects the cell under the cursor
PickedCell_select(cellID, c) == IF c # NoCell THEN c ELSE -1

\* if c and self.cellID != c.id(): self.cellID = c.id() else: -1
PickedCell(cellID, c) == IF c # NoCell /\ cellID # c THEN c ELSE -1

\* a pick event: whether it carries a mouse event, whether that has data
\* coordinates, its button, the cell findCell finds there, the index
\* event.ind[0] of the picked element and the array of the picked artist
PickEvents ==
    [mouse : BOOLEAN, hasXY : BOOLEAN, button : {1, 3},
     cell : CbCellIds \cup {NoCell}, ind : CbCellIds,
     array : {"none", "cells"}]

\* a left-button click at a position of the mesh plane
LeftClick(ev) == ev.mouse /\ ev.hasXY /\ ev.button = 1

\* CellBrowser.onPick
onPick(b, ev) ==
    LET b1 == IF b.data = "none" THEN [b EXCEPT !.data = ev.array] ELSE b
        note(r, u) == [r EXCEPT !.last = [kind |-> "pick",
                                          before |-> b.cellID,
                                          updated |-> u,
                                          left |-> LeftClick(ev),
                                          cell |-> ev.cell]]
    IN  IF ev.mouse
        THEN IF ev.hasXY /\ ev.button = 1
             THEN note(update([b1 EXCEPT
                                 !.cellID = PickedCell(b.cellID, ev.cell)]),
                       TRUE)
             ELSE note(b1, FALSE)
        ELSE note([b1 EXCEPT !.cellID = ev.ind], FALSE)

\* same: event.key is the very string object of the literal it equals
KeyEvents == [key : {"up", "down", "escape", "a"}, same : BOOLEAN]

\* event.key == 'up'
KeyIs_equal(ev, lit) == ev.key = lit

\* event.key is 'up': equal strings need not be the same object
KeyIs(ev, lit) == ev.key = lit /\ ev.same

\* CellBrowser.onPress
onPress(b, ev) ==
    LET note(r, u) == [r EXCEPT !.last = [kind |-> ev.key,
                                          before |-> b.cellID,
                                          updated |-> u, left |-> FALSE,
                                          cell |-> NoCell]]
        moved(d) == update([b EXCEPT
                              !.cellID = clip(b.cellID + d, 0, CbCells - 1)])
    IN  IF b.data = "none" THEN note(b, FALSE)
        ELSE IF ev.key \notin {"up", "down", "escape"} THEN note(b, FALSE)
        ELSE IF KeyIs(ev, "up") THEN note(moved(1), TRUE)
        ELSE IF KeyIs(ev, "down") THEN note(moved(-1), TRUE)
        ELSE note(hide(b), FALSE)

\* CellBrowser.setData: hide(), then the data is set, unless the indexing
\* by the cell markers raises
setData(b, d) ==
    LET h == [hide(b) EXCEPT !.last = [NoBrowser.last EXCEPT
                                         !.kind = "setData",
                                         !.before = b.cellID]]
    IN  IF d \in {"none", "unmappable"} THEN h ELSE [h EXCEPT !.data = d]

cbsUnchanged == streamsUnchanged /\ UNCHANGED <<rend, hlp, gal>>

\* a connect without the test of _connected
ConnectNeeded_always(b) == TRUE

\* if not self._connected:
ConnectNeeded(b) == ~b.connected

\* CellBrowserCacheSingleton.add
add(s, x) == Append(s, x)

\* CellBrowser.connect
connect(c, i) ==
    IF ConnectNeeded(c.b[i])
    THEN [c EXCEPT !.cache = add(c.cache, i), !.b[i].connected = TRUE]
    ELSE c

\* the list without the first occurrence of x
RECURSIVE removeFirst(_, _)
removeFirst(s, x) ==
    IF s = << >> THEN s
    ELSE IF Head(s) = x THEN Tail(s)
    ELSE << Head(s) >> \o removeFirst(Tail(s), x)

\* CellBrowserCacheSingleton.remove, list.remove(x): the first occurrence
\* is taken out; ValueError and the list as it was when x is not in it
remove(s, x) ==
    IF \E k \in 1 .. Len(s) : s[k] = x
    THEN [out |-> removeFirst(s, x), raised |-> "no"]
    ELSE [out |-> s, raised |-> "ValueError"]

\* CellBrowser.disconnect: an error of remove leaves the browser connected
disconnect(c, i) ==
    IF c.b[i].connected
    THEN LET r == remove(c.cache, i)
         IN  IF r.raised = "no"
             THEN [c EXCEPT !.cache = r.out, !.b[i].connected = FALSE]
             ELSE [c EXCEPT !.raised = r.raised]
    ELSE c

\* the module is imported: __CBCache__ = CellBrowserCacheSingleton().
\* raised is the exception of the last call; direct says whether a method
\* that the constructor, setData, connect, disconnect and the event
\* handlers call internally (add and remove of the cache, hide, update,
\* removeHighlightCell, highlightCell, initText) was called from outside.
CbsInit(ids) ==
    /\ StreamsOff
    /\ rend = Off /\ hlp = Off /\ gal = Off
    /\ cbs = [pc |-> "run", instances |-> SingletonNew(0), cache |-> << >>,
              raised |-> "no", direct |-> FALSE,
              b |-> [i \in ids |-> NoBrowser]]

\* The methods of a browser read and write that browser alone, and
\* browsers meet only in the cache: the methods are followed on one
\* browser, the cache is followed for NBrowsers browsers.
BrowserInit == CbsInit({1})

CacheInit == CbsInit(Browsers)

\* the state at the start of a call: no exception yet
Called == [cbs EXCEPT !.raised = "no"]

\* CellBrowser(mesh, data): __init__ ends with setData and connect; a
\* setData that raises leaves no browser
Construct(i, d) ==
    /\ ~cbs.b[i].made
    /\ cbs' = connect([Called EXCEPT !.b[i] =
                          setData([NoBrowser EXCEPT !.made = TRUE], d)], i)
    /\ cbsUnchanged

ConstructFails(i) ==
    /\ ~cbs.b[i].made
    /\ cbs' = [Called EXCEPT !.b[i].last.kind = "raised",
                             !.raised = "IndexError"]
    /\ cbsUnchanged

Connect(i) ==
    /\ cbs.b[i].made
    /\ cbs' = connect(Called, i)
    /\ cbsUnchanged

Disconnect(i) ==
    /\ cbs.b[i].made
    /\ cbs' = disconnect(Called, i)
    /\ cbsUnchanged

SetData(i, d) ==
    /\ cbs.b[i].made
    /\ cbs' = [Called EXCEPT !.b[i] = setData(cbs.b[i], d),
                             !.raised = IF d = "unmappable" THEN "IndexError"
                                        ELSE "no"]
    /\ cbsUnchanged

\* the canvas delivers an event to a connected browser, or the handler is
\* called on any browser
Pick(i, ev) ==
    /\ cbs.b[i].made
    /\ cbs' = [Called EXCEPT !.b[i] = onPick(cbs.b[i], ev)]
    /\ cbsUnchanged

Press(i, ev) ==
    /\ cbs.b[i].made
    /\ cbs' = [Called EXCEPT !.b[i] = onPress(cbs.b[i], ev)]
    /\ cbsUnchanged

\* a method of the display called on its own; last names it
Direct(b, name) ==
    [b EXCEPT !.last = [NoBrowser.last EXCEPT !.kind = name,
                                              !.before = b.cellID]]

\* CellBrowser.hide()
Hide(i) ==
    /\ cbs.b[i].made
    /\ cbs' = [Called EXCEPT !.b[i] = Direct(hide(cbs.b[i]), "hide"),
                             !.direct = TRUE]
    /\ cbsUnchanged

\* CellBrowser.update()
Update(i) ==
    /\ cbs.b[i].made
    /\ cbs' = [Called EXCEPT !.b[i] = Direct(update(cbs.b[i]), "update"),
                             !.direct = TRUE]
    /\ cbsUnchanged

\* CellBrowser.removeHighlightCell()
RemoveHighlightCell(i) ==
    /\ cbs.b[i].made
    /\ cbs' = [Called EXCEPT !.b[i] =
                 Direct([cbs.b[i] EXCEPT !.highLight = NoCell],
                        "removeHighlightCell"),
               !.direct = TRUE]
    /\ cbsUnchanged

\* CellBrowser.highlightCell(cell)
HighlightCell(i, c) ==
    /\ cbs.b[i].made
    /\ cbs' = [Called EXCEPT !.b[i] =
                 Direct([cbs.b[i] EXCEPT !.highLight = c], "highlightCell"),
               !.direct = TRUE]
    /\ cbsUnchanged

\* CellBrowser.initText(): a new annotation, invisible and without text
InitText(i) ==
    /\ cbs.b[i].made
    /\ cbs' = [Called EXCEPT !.b[i] =
                 Direct([cbs.b[i] EXCEPT !.textMade = TRUE,
                                         !.textVisible = FALSE,
                                         !.textCell = NoCell], "initText"),
               !.direct = TRUE]
    /\ cbsUnchanged

\* somebody asks for the cache: CellBrowserCacheSingleton()
GetCache ==
    /\ cbs' = [Called EXCEPT !.instances = SingletonNew(cbs.instances)]
    /\ cbsUnchanged

\* CellBrowserCacheSingleton().add(c) called from outside connect; the
\* list takes any object, a browser or not
CacheAdd(i) ==
    /\ Len(cbs.cache) < MaxCache
    /\ cbs' = [Called EXCEPT !.cache = add(cbs.cache, i), !.direct = TRUE]
    /\ cbsUnchanged

\* CellBrowserCacheSingleton().remove(c) called from outside disconnect
CacheRemove(i) ==
    /\ LET r == remove(cbs.cache, i)
       IN  cbs' = [Called EXCEPT !.cache = r.out, !.raised = r.raised,
                                 !.direct = TRUE]
    /\ cbsUnchanged

BrowserNext ==
    \/ \E i \in DOMAIN cbs.b, d \in DataKinds \ {"unmappable"} :
          Construct(i, d)
    \/ \E i \in DOMAIN cbs.b : ConstructFails(i)
    \/ \E i \in DOMAIN cbs.b : Connect(i)
    \/ \E i \in DOMAIN cbs.b : Disconnect(i)
    \/ \E i \in DOMAIN cbs.b, d \in DataKinds : SetData(i, d)
    \/ \E i \in DOMAIN cbs.b, ev \in PickEvents : Pick(i, ev)
    \/ \E i \in DOMAIN cbs.b, ev \in KeyEvents : Press(i, ev)
    \/ \E i \in DOMAIN cbs.b : Hide(i)
    \/ \E i \in DOMAIN cbs.b : Update(i)
    \/ \E i \in DOMAIN cbs.b : RemoveHighlightCell(i)
    \/ \E i \in DOMAIN cbs.b, c \in CbCellIds : HighlightCell(i, c)
    \/ \E i \in DOMAIN cbs.b : InitText(i)
    \/ GetCache

BrowserSpec == BrowserInit /\ [][BrowserNext]_vars

CacheNext ==
    \/ \E i \in DOMAIN cbs.b, d \in DataKinds \ {"unmappable"} :
          Construct(i, d)
    \/ \E i \in DOMAIN cbs.b : ConstructFails(i)
    \/ \E i \in DOMAIN cbs.b : Connect(i)
    \/ \E i \in DOMAIN cbs.b : Disconnect(i)
    \/ \E i \in DOMAIN cbs.b : CacheAdd(i)
    \/ \E i \in DOMAIN cbs.b : CacheRemove(i)
    \/ GetCache

CacheSpec == CacheInit /\ [][CacheNext]_vars

\* C12: after a left-button click handled by onPick the browser shows the
\* clicked cell when there is one and it was not the current cell, it is
\* hidden (cellID = -1) when the current cell was clicked again or no cell
\* lies under the cursor, and update() was called in both cases.
C12_PickToggles ==
    \A i \in DOMAIN cbs.b :
      LET b == cbs.b[i]
          l == b.last
      IN  (l.kind = "pick" /\ l.left) =>
            /\ l.updated
            /\ (l.cell # NoCell /\ l.cell # l.before) => b.cellID = l.cell
            /\ (l.cell = NoCell \/ l.cell = l.before) => b.cellID = -1

\* the shown cell was clicked again and the browser is hidden
C12_Witness ==
    \E i \in DOMAIN cbs.b :
      LET l == cbs.b[i].last
      IN  /\ l.kind = "pick" /\ l.left
          /\ l.before > -1 /\ l.cell = l.before
          /\ cbs.b[i].cellID = -1

\* the highlight and the annotation are visible and describe cell cellID
Shown(b) ==
    /\ b.cellID \in CbCellIds
    /\ b.textVisible /\ b.textCell = b.cellID /\ b.highLight = b.cellID

\* nothing is displayed and no cell is current
Hidden(b) == b.cellID = -1 /\ ~b.textVisible /\ b.highLight = NoCell

\* C13: with data, key 'up' adds one to and key 'down' takes one from the
\* current cell index, the result is clamped into [0, cellCount-1] (also
\* from the hidden state) and that cell is shown; 'escape' hides the
\* browser; any other key, and any key while data is None, leaves the
\* browser as it was.
C13_KeysMoveClamped ==
    [][\A i \in DOMAIN cbs.b, ev \in KeyEvents :
         Press(i, ev) =>
           LET b == cbs.b[i]
               a == cbs.b[i]'
           IN  IF b.data = "none" \/ ev.key \notin {"up", "down", "escape"}
               THEN [a EXCEPT !.last = b.last] = b
               ELSE IF ev.key = "escape" THEN Hidden(a)
               ELSE /\ Shown(a)
                    /\ a.cellID = clip(b.cellID
                                         + (IF ev.key = "up" THEN 1 ELSE -1),
                                       0, CbCells - 1)]_vars

\* how often browser i is in the cache
Count(cache, i) == Cardinality({k \in 1 .. Len(cache) : cache[k] = i})

\* C14: there is one cache object whatever is called; as long as nothing
\* but construct, connect() and disconnect() has changed the cache, it
\* holds a browser exactly once when it is connected and not at all
\* otherwise; connect() on a connected and disconnect() on a disconnected
\* browser change neither the cache nor a browser; a browser that has just
\* been constructed is connected.
C14_CacheHoldsConnected ==
    /\ [](/\ cbs.instances = 1
          /\ ~cbs.direct =>
               \A i \in DOMAIN cbs.b :
                 Count(cbs.cache, i) = IF cbs.b[i].connected THEN 1 ELSE 0)
    /\ [][\A i \in DOMAIN cbs.b :
            /\ ((Connect(i) /\ cbs.b[i].connected)
                  \/ (Disconnect(i) /\ ~cbs.b[i].connected)) =>
                 /\ cbs.cache' = cbs.cache
                 /\ cbs.b' = cbs.b
                 /\ cbs.raised' = "no"
            /\ (~cbs.b[i].made /\ cbs.b[i]'.made) => cbs.b[i]'.connected
         ]_vars

\* the first browser has been constructed and disconnected while the
\* second is connected and alone in the cache
C14_Witness ==
    /\ ~cbs.direct
    /\ cbs.cache = << 2 >>
    /\ cbs.b[1].made /\ ~cbs.b[1].connected
    /\ cbs.b[2].connected

\* ======================================================================
\* Drawing helpers: drawMeshBoundaries, CellBrowser.setData, drawModel
\* ======================================================================
\* largest cell count and largest data length of a call
MaxHCells == 2
MaxData == 4

DataValues == {1, 2}
CellMarkers == -1 .. 2
Dimensions == 1 .. 3
NodeCounts == 0 .. 3

\* the boundary selections drawMeshBoundaries draws, by marker: 0, homogeneous
\* Neumann, mixed, above 0, below -4
BoundaryGroups == {"zero", "neumann", "mixed", "positive", "below"}

\* no array given (data=None)
NoData == [given |-> FALSE, val |-> << >>]

DataArrays ==
    {NoData} \cup {[given |-> TRUE, val |-> v] :
                     v \in SeqsUpTo(DataValues, MaxData)}

\* a strip of triangles: every further cell adds one node
StripNodeCount(cellCount) == cellCount + 2

DataMeshes ==
    {[none |-> FALSE, dim |-> 2, nodeCount |-> StripNodeCount(Len(m)),
      markers |-> m, groups |-> {}] :
       m \in SeqsUpTo(CellMarkers, MaxHCells) \ {<< >>}}

BoundaryMeshes ==
    [none : BOOLEAN, dim : Dimensions, nodeCount : NodeCounts,
     markers : {<< 0 >>}, groups : SUBSET BoundaryGroups]

cellCount(mesh) == Len(mesh.markers)

\* what a call has done so far: exception raised, messages reported, axes
\* limits set, collections added to the axes, neighbour infos created, and
\* the array the call goes on with
NoEffect ==
    [raised |-> "no", msgs |-> << >>, limits |-> FALSE, collections |-> 0,
     neighbourInfos |-> FALSE, out |-> NoData]

\* numpy's a[i] for an index array i: an index m stands for m + len(a) when
\* negative and must lie in -len(a) .. len(a)-1
IndexOk(n, m) == -n <= m /\ m < n

TakeOk(a, ind) == \A k \in 1 .. Len(ind) : IndexOk(Len(a), ind[k])

Take(a, ind) ==
    [k \in 1 .. Len(ind) |->
       a[(IF ind[k] < 0 THEN ind[k] + Len(a) ELSE ind[k]) + 1]]

\* the node threshold taken one too low
EnoughNodes_one(n) == ~(n < 1)

\* if mesh.nodeCount() < 2: raise
EnoughNodes(n) == ~(n < 2)

\* drawMeshBoundaries(ax, mesh, hideMesh, fitView=...)
drawMeshBoundaries(mesh, hideMesh, fitView) ==
    IF mesh.none \/ mesh.dim # 2 \/ ~EnoughNodes(mesh.nodeCount)
    THEN [NoEffect EXCEPT !.raised = "Exception"]
    ELSE [NoEffect EXCEPT
            !.limits = fitView,
            !.neighbourInfos = TRUE,
            !.collections =
                Cardinality(mesh.groups \ (IF hideMesh THEN {"zero"} ELSE {}))]

\* data[mesh.cellMarkers()] after the message msg
ByMarkers(e, data, mesh, msg) ==
    IF TakeOk(data.val, mesh.markers)
    THEN [e EXCEPT !.msgs = << msg >>,
                   !.out = [given |-> TRUE,
                            val |-> Take(data.val, mesh.markers)]]
    ELSE [e EXCEPT !.msgs = << msg >>, !.raised = "IndexError"]

\* self.data = data / viewdata = data
Unchanged(data, mesh) == data

\* CellBrowser.setData(data) after hide(); cellData is what
\* nodeDataToCellData makes of node data
setDataArray(data, mesh, cellData) ==
    IF ~data.given THEN NoEffect
    ELSE IF Len(data.val) = cellCount(mesh)
    THEN [NoEffect EXCEPT !.out = Unchanged(data, mesh)]
    ELSE IF Len(data.val) = mesh.nodeCount
    THEN [NoEffect EXCEPT !.out = [given |-> TRUE, val |-> cellData]]
    ELSE ByMarkers(NoEffect, data, mesh, "warn")

\* drawModel(ax, mesh, data, fitView=...) with tri=False: the patches are
\* added, the view data are chosen and, when nothing was raised, the axes
\* limits are set under fitView
drawModel(data, mesh, fitView) ==
    LET e == [NoEffect EXCEPT !.collections = 1]
        d == IF data.given THEN data
             ELSE [given |-> TRUE, val |-> [k \in 1 .. cellCount(mesh) |-> 0]]
        r == IF Len(d.val) # cellCount(mesh)
             THEN ByMarkers(e, d, mesh, "info")
             ELSE [e EXCEPT !.out = Unchanged(d, mesh)]
    IN  IF r.raised = "no" THEN [r EXCEPT !.limits = fitView] ELSE r

HelperInit ==
    /\ StreamsOff
    /\ rend = Off /\ cbs = Off /\ gal = Off
    /\ \/ \E m \in BoundaryMeshes, h \in BOOLEAN, f \in BOOLEAN :
            hlp = [pc |-> "call", fn |-> "drawMeshBoundaries", mesh |-> m,
                   data |-> NoData, hideMesh |-> h, fitView |-> f,
                   eff |-> NoEffect]
       \/ \E m \in DataMeshes, d \in DataArrays :
            hlp = [pc |-> "call", fn |-> "setData", mesh |-> m, data |-> d,
                   hideMesh |-> FALSE, fitView |-> TRUE, eff |-> NoEffect]
       \/ \E m \in DataMeshes, d \in DataArrays, f \in BOOLEAN :
            hlp = [pc |-> "call", fn |-> "drawModel", mesh |-> m, data |-> d,
                   hideMesh |-> FALSE, fitView |-> f, eff |-> NoEffect]

hlpUnchanged == streamsUnchanged /\ UNCHANGED <<rend, cbs, gal>>

Returned(e) == IF e.raised = "no" THEN "done" ELSE "raised"

CallDrawMeshBoundaries ==
    /\ hlp.pc = "call" /\ hlp.fn = "drawMeshBoundaries"
    /\ LET e == drawMeshBoundaries(hlp.mesh, hlp.hideMesh, hlp.fitView)
       IN  hlp' = [hlp EXCEPT !.eff = e, !.pc = Returned(e)]
    /\ hlpUnchanged

CallSetData ==
    /\ hlp.pc = "call" /\ hlp.fn = "setData"
    /\ \E c \in SeqsUpTo(DataValues, MaxHCells) :
         /\ Len(c) = cellCount(hlp.mesh)
         /\ LET e == setDataArray(hlp.data, hlp.mesh, c)
            IN  hlp' = [hlp EXCEPT !.eff = e, !.pc = Returned(e)]
    /\ hlpUnchanged

CallDrawModel ==
    /\ hlp.pc = "call" /\ hlp.fn = "drawModel"
    /\ LET e == drawModel(hlp.data, hlp.mesh, hlp.fitView)
       IN  hlp' = [hlp EXCEPT !.eff = e, !.pc = Returned(e)]
    /\ hlpUnchanged

HelperNext == CallDrawMeshBoundaries \/ CallSetData \/ CallDrawModel

HelperSpec == HelperInit /\ [][HelperNext]_vars

\* C15: drawMeshBoundaries raises for an invalid mesh, for a mesh whose
\* dimension is not 2 and for a mesh with fewer than 2 nodes, and when it
\* raises no axes limits are set, no collection is added and no neighbour
\* infos are created.
C15_RaisesBeforeDrawing ==
    (/\ hlp.pc \notin {"off", "call"}
     /\ hlp.fn = "drawMeshBoundaries"
     /\ (hlp.mesh.none \/ hlp.mesh.dim # 2 \/ hlp.mesh.nodeCount < 2)) =>
        /\ hlp.pc = "raised"
        /\ hlp.eff.raised = "Exception"
        /\ ~hlp.eff.limits
        /\ hlp.eff.collections = 0
        /\ ~hlp.eff.neighbourInfos

\* a two-dimensional mesh with one node and boundaries to draw was passed
\* with fitView and the call has raised
C15_Witness ==
    /\ hlp.pc = "raised"
    /\ hlp.fn = "drawMeshBoundaries"
    /\ ~hlp.mesh.none /\ hlp.mesh.dim = 2 /\ hlp.mesh.nodeCount = 1
    /\ hlp.mesh.groups # {} /\ hlp.fitView

\* C16: data whose length is neither the cell count nor (for setData) the
\* node count do not make setData or drawModel fail: a message is reported
\* and the call goes on with data[mesh.cellMarkers()], one value per cell;
\* data of length cellCount are used unchanged.
C16_MismatchNotFatal ==
    (/\ hlp.pc \notin {"off", "call"}
     /\ hlp.fn \in {"setData", "drawModel"}
     /\ hlp.data.given) =>
        IF Len(hlp.data.val) = cellCount(hlp.mesh)
        THEN hlp.pc = "done" /\ hlp.eff.out = hlp.data
        ELSE IF hlp.fn = "setData" /\ Len(hlp.data.val) = hlp.mesh.nodeCount
        THEN hlp.pc = "done"
        ELSE /\ hlp.pc = "done"
             /\ hlp.eff.msgs # << >>
             /\ Len(hlp.eff.out.val) = cellCount(hlp.mesh)

\* ======================================================================
\* sidebar_gallery.py: readRSTSecTitles
\* ======================================================================
\* A string is a sequence of one-character strings.  A text is a sequence
\* of lines without their line ends; every line but the last ends with a
\* newline, and nl says whether the last one does.
MaxLines == 3

LineTexts ==
    {<< >>, <<"I">>, <<"I", " ">>, <<"=">>, <<"-", "=">>,
     <<"-", "-", "-">>, <<"I", "=", "=", "=">>, <<"i", "t", "e", "m">>}

Texts ==
    {t \in [lines : SeqsUpTo(LineTexts, MaxLines), nl : BOOLEAN] :
       /\ t.lines = << >> => t.nl
       /\ (t.lines # << >> /\ ~t.nl) => t.lines[Len(t.lines)] # << >>}

\* line k of the text ends with a newline
Terminated(t, k) == k < Len(t.lines) \/ t.nl

\* the character class [-=]
UnderlineChar(c) == c \in {"-", "="}

\* [-=]+
IsUnderline(l) == l # << >> /\ \A k \in 1 .. Len(l) : UnderlineChar(l[k])

\* ^(.+)\n[-=]+\n matches with line k as group 1
MatchAt(t, k) ==
    /\ k + 1 <= Len(t.lines)
    /\ t.lines[k] # << >>
    /\ IsUnderline(t.lines[k + 1])
    /\ Terminated(t, k + 1)

\* re.findall: the matches from line k on, from left to right and without
\* overlap
RECURSIVE findall(_, _)
findall(t, k) ==
    IF k > Len(t.lines) THEN << >>
    ELSE IF MatchAt(t, k) THEN << t.lines[k] >> \o findall(t, k + 2)
    ELSE findall(t, k + 1)

\* pat in s, at position k or later
RECURSIVE ContainsFrom(_, _, _)
ContainsFrom(s, pat, k) ==
    IF k + Len(pat) - 1 > Len(s) THEN FALSE
    ELSE IF SubSeq(s, k, k + Len(pat) - 1) = pat THEN TRUE
    ELSE ContainsFrom(s, pat, k + 1)

Contains(s, pat) == ContainsFrom(s, pat, 1)

\* "---" in line or "===" in line
HasRule(l) ==
    Contains(l, <<"-", "-", "-">>) \/ Contains(l, <<"=", "=", "=">>)

Unknown == <<"u", "n", "k", "n", "o", "w", "n">>

\* the loop over f.readlines(): the line before every line with a rule
RECURSIVE scanLines(_, _, _)
scanLines(t, k, title) ==
    IF k > Len(t.lines) THEN << >>
    ELSE (IF HasRule(t.lines[k]) THEN << title >> ELSE << >>)
         \o scanLines(t, k + 1, t.lines[k])

\* str.rstrip(): the newline of a line read by readlines() goes as well
RECURSIVE rstrip(_)
rstrip(l) ==
    IF l # << >> /\ l[Len(l)] = " " THEN rstrip(SubSeq(l, 1, Len(l) - 1))
    ELSE l

\* readRSTSecTitles(fname)
readRSTSecTitles(t) ==
    LET found == findall(t, 1)
        titles == IF found # << >> THEN found ELSE scanLines(t, 1, Unknown)
    IN  [warned |-> found = << >>,
         raised |-> IF titles = << >> THEN "IndexError" ELSE "no",
         out |-> IF titles = << >> THEN << >> ELSE rstrip(titles[1])]

TitleInit ==
    /\ StreamsOff
    /\ rend = Off /\ cbs = Off /\ hlp = Off
    /\ \E t \in Texts :
         gal = [pc |-> "read", text |-> t,
                res |-> [warned |-> FALSE, raised |-> "no", out |-> << >>]]

galUnchanged == streamsUnchanged /\ UNCHANGED <<rend, cbs, hlp>>

ReadTitle ==
    /\ gal.pc = "read"
    /\ LET r == readRSTSecTitles(gal.text)
       IN  gal' = [gal EXCEPT !.res = r,
                              !.pc = IF r.raised = "no" THEN "done"
                                     ELSE "raised"]
    /\ galUnchanged

TitleNext == ReadTitle

TitleSpec == TitleInit /\ [][TitleNext]_vars

\* the lines of the text at which the heading-underline pattern is found:
\* not empty and followed by a line of '-' and '=' characters that ends
\* with a newline
Headers(t) ==
    {k \in 1 .. Len(t.lines) - 1 :
       /\ t.lines[k] # << >>
       /\ t.lines[k + 1] # << >>
       /\ \A j \in 1 .. Len(t.lines[k + 1]) :
            t.lines[k + 1][j] \in {"-", "="}
       /\ (k + 1 < Len(t.lines) \/ t.nl)}

\* s is l without the blanks at its end
Stripped(s, l) ==
    /\ Len(s) <= Len(l)
    /\ s = SubSeq(l, 1, Len(s))
    /\ \A j \in Len(s) + 1 .. Len(l) : l[j] = " "
    /\ (s # << >> => s[Len(s)] # " ")

\* the section titles of a text as a reader sees them: a line with text
\* that is directly followed by a line made of '-' and '=' characters,
\* whether or not that line, being the last of the file, ends with a
\* newline
TitleLines(t) ==
    {k \in 1 .. Len(t.lines) - 1 :
       /\ t.lines[k] # << >>
       /\ t.lines[k + 1] # << >>
       /\ \A j \in 1 .. Len(t.lines[k + 1]) :
            t.lines[k + 1][j] \in {"-", "="}}

\* C17: for a text with a section title, readRSTSecTitles returns the
\* first line that is directly followed by a line of '-' or '='
\* characters, without the blanks at its end.
C17_FirstSectionTitle ==
    (gal.pc \notin {"off", "read"} /\ TitleLines(gal.text) # {}) =>
        LET k == CHOOSE h \in TitleLines(gal.text) :
                   \A g \in TitleLines(gal.text) : h <= g
        IN  /\ gal.pc = "done"
            /\ Stripped(gal.res.out, gal.text.lines[k])

\* C18: for a text without a section title, readRSTSecTitles warns, scans
\* the lines and returns a title; it does not raise.
C18_FallbackReturnsTitle ==
    (gal.pc \notin {"off", "read"} /\ Headers(gal.text) = {}) =>
        /\ gal.res.warned
        /\ gal.pc = "done"
        /\ gal.res.raised = "no"

\* ======================================================================
\* sidebar_gallery.py: make_gallery
\* ======================================================================
\* largest number of files the two globs find
MaxFiles == 2

Item == <<"i", "t", "e", "m">>
ActiveItem == <<"a", "c", "t", "i", "v", "e", " ">> \o Item
Dev == <<"d", "e", "v">>

\* file names (the part before .py) and file contents of the candidates
FileNames == {<<"p">>, Dev, Item}

GalleryTexts ==
    {[lines |-> << <<"I">>, <<"=">> >>, nl |-> TRUE],
     [lines |-> << Item, <<"-", "-", "-">> >>, nl |-> TRUE],
     [lines |-> << <<"I">> >>, nl |-> TRUE]}

\* what glob finds under examples/ and tutorials/
Candidates ==
    [kind : {"example", "tutorial"}, name : FileNames, text : GalleryTexts]

\* [fn for fn in glob(...) if not "dev" in fn]
discovered(files, kind) ==
    SelectSeq(files, LAMBDA f : f.kind = kind /\ ~Contains(f.name, Dev))

\* str.replace(old, new): every occurrence, from left to right
RECURSIVE replace(_, _, _)
replace(str, old, new) ==
    IF Len(str) < Len(old) THEN str
    ELSE IF SubSeq(str, 1, Len(old)) = old
    THEN new \o replace(SubSeq(str, Len(old) + 1, Len(str)), old, new)
    ELSE << str[1] >> \o replace(Tail(str), old, new)

\* html_item.format(url, img, title): the class of the div, the link, the
\* thumbnail and the caption are the parts of the block that vary
html_item(f, title) ==
    [part |-> "slide", class |-> Item,
     url |-> [dir |-> IF f.kind = "example" THEN "_examples_auto"
                      ELSE "_tutorials_auto",
              name |-> f.name, ext |-> ".html"],
     img |-> [dir |-> "_images", name |-> f.name, ext |-> "_thumb.png"],
     caption |-> title]

\* item.replace("item", "active item") on the formatted block
activate(b) ==
    [b EXCEPT !.class = replace(@, Item, ActiveItem),
              !.url.name = replace(@, Item, ActiveItem),
              !.img.name = replace(@, Item, ActiveItem),
              !.caption = replace(@, Item, ActiveItem)]

html_top == [part |-> "top"]
html_bottom == [part |-> "bottom"]

\* random.randint(0, len(gallery) - 1): the values it can return; it
\* raises ValueError for an empty range
randint(lo, hi) == lo .. hi

GalleryInit ==
    /\ StreamsOff
    /\ rend = Off /\ cbs = Off /\ hlp = Off
    /\ \E fs \in SeqsUpTo(Candidates, MaxFiles) :
         gal = [pc |-> "start", files |-> fs, gallery |-> << >>,
                titles |-> << >>, idx |-> -1, raised |-> "no",
                written |-> FALSE, html |-> << >>]

\* lines 30-58: the files are globbed and filtered and their titles read
ReadTitles ==
    /\ gal.pc = "start"
    /\ LET g == discovered(gal.files, "example")
                  \o discovered(gal.files, "tutorial")
           r == [k \in 1 .. Len(g) |-> readRSTSecTitles(g[k].text)]
       IN  IF \E k \in 1 .. Len(g) : r[k].raised # "no"
           THEN gal' = [gal EXCEPT !.pc = "raised", !.raised = "IndexError"]
           ELSE gal' = [gal EXCEPT !.pc = "titles", !.gallery = g,
                                   !.titles = [k \in 1 .. Len(g) |-> r[k].out]]
    /\ galUnchanged

\* line 97
ChooseStart ==
    /\ gal.pc = "titles"
    /\ IF randint(0, Len(gal.gallery) - 1) = {}
       THEN gal' = [gal EXCEPT !.pc = "raised", !.raised = "ValueError"]
       ELSE \E i \in randint(0, Len(gal.gallery) - 1) :
              gal' = [gal EXCEPT !.pc = "chosen", !.idx = i]
    /\ galUnchanged

\* lines 98-119: the blocks are built and the file is written
WriteGallery ==
    /\ gal.pc = "chosen"
    /\ LET items == [k \in 1 .. Len(gal.gallery) |->
                       LET b == html_item(gal.gallery[k], gal.titles[k])
                       IN  IF k - 1 = gal.idx THEN activate(b) ELSE b]
       IN  gal' = [gal EXCEPT !.pc = "done", !.written = TRUE,
                              !.html = << html_top >> \o items
                                         \o << html_bottom >>]
    /\ galUnchanged

GalleryNext == ReadTitles \/ ChooseStart \/ WriteGallery

GallerySpec == GalleryInit /\ [][GalleryNext]_vars

\* the call of make_gallery is over
GalleryEnded == gal.pc \in {"done", "raised"}

\* the files the call has discovered
Discovered ==
    discovered(gal.files, "example") \o discovered(gal.files, "tutorial")

\* the slide blocks of the written file
Slides == {k \in 1 .. Len(gal.html) : gal.html[k].part = "slide"}

\* C19: whatever files are discovered, the gallery that make_gallery
\* writes has as many slide blocks as there are discovered files and
\* exactly one of them is marked active.
C19_OneActiveSlide ==
    GalleryEnded =>
        /\ gal.written
        /\ Cardinality(Slides) = Len(Discovered)
        /\ Cardinality({k \in Slides : gal.html[k].class = ActiveItem}) = 1

\* C20: when no file is discovered make_gallery does not fail and writes
\* the top and the bottom template with no slide block between them.
C20_EmptyGalleryWritten ==
    (GalleryEnded /\ Discovered = << >>) =>
        /\ gal.pc = "done"
        /\ gal.written
        /\ gal.html = << html_top, html_bottom >>

\* ======================================================================
\* createTriangles
\* ======================================================================
\* c.shape().nodeCount() of the cells of a two-dimensional mesh
ShapeNodeCounts == {3, 4}

\* the cells of a mesh in iteration order: cell k has id k - 1 and nodes of
\* its own, node(j) of the cell is nodes[j + 1]
CellsOf(shapes) ==
    [k \in 1 .. Len(shapes) |->
       [id |-> k - 1,
        nodes |-> [j \in 1 .. shapes[k] |-> 4 * (k - 1) + j - 1]]]

TriMeshes == {CellsOf(sh) : sh \in SeqsUpTo(ShapeNodeCounts, MaxHCells)}

node(c, j) == c.nodes[j + 1]

\* a second triangle over nodes 1, 2, 3
SecondTriangle_shifted(c) == << node(c, 1), node(c, 2), node(c, 3) >>

\* the second triangle of a quadrilateral: nodes 0, 2, 3
SecondTriangle(c) == << node(c, 0), node(c, 2), node(c, 3) >>

FirstTriangle(c) == << node(c, 0), node(c, 1), node(c, 2) >>

\* the second loop over mesh.cells(): the triangles and dataIdx filled so
\* far, continued with the cells from k on
RECURSIVE fillTriangles(_, _, _)
fillTriangles(cells, k, r) ==
    IF k > Len(cells) THEN r
    ELSE LET c == cells[k]
         IN  IF Len(c.nodes) = 4
             THEN fillTriangles(cells, k + 1,
                    [triangles |-> r.triangles
                                     \o << FirstTriangle(c), SecondTriangle(c) >>,
                     dataIdx |-> r.dataIdx \o << c.id, c.id >>])
             ELSE fillTriangles(cells, k + 1,
                    [triangles |-> Append(r.triangles, FirstTriangle(c)),
                     dataIdx |-> Append(r.dataIdx, c.id)])

\* createTriangles(mesh, data): triangles, z and dataIdx of the result
createTriangles(cells, data) ==
    LET r == fillTriangles(cells, 1, [triangles |-> << >>, dataIdx |-> << >>])
    IN  [triangles |-> r.triangles,
         dataIdx |-> r.dataIdx,
         z |-> IF ~data.given THEN NoData
               ELSE IF Len(data.val) = Len(cells)
               THEN [given |-> TRUE,
                     val |-> [t \in 1 .. Len(r.dataIdx) |->
                                data.val[r.dataIdx[t] + 1]]]
               ELSE data]

TriInit ==
    /\ StreamsOff
    /\ rend = Off /\ cbs = Off /\ gal = Off
    /\ \E m \in TriMeshes, d \in DataArrays :
         hlp = [pc |-> "call", fn |-> "createTriangles", cells |-> m,
                data |-> d,
                res |-> [triangles |-> << >>, dataIdx |-> << >>,
                         z |-> NoData]]

CallCreateTriangles ==
    /\ hlp.pc = "call" /\ hlp.fn = "createTriangles"
    /\ hlp' = [hlp EXCEPT !.res = createTriangles(hlp.cells, hlp.data),
                          !.pc = "done"]
    /\ hlpUnchanged

TriNext == CallCreateTriangles

TriSpec == TriInit /\ [][TriNext]_vars

\* the quadrilaterals among the first n cells
QuadsUpTo(cells, n) == {k \in 1 .. n : Len(cells[k].nodes) = 4}

\* C21: createTriangles makes two triangles (nodes 0,1,2 and 0,2,3) of
\* every quadrilateral and one triangle (nodes 0,1,2) of every other cell,
\* in cell order; there are as many triangles as cells plus
\* quadrilaterals, dataIdx names for every triangle the cell it came
\* from, and for data with one value per cell z holds for every triangle
\* the value of its cell.
C21_TrianglesPerCell ==
    (hlp.pc = "done" /\ hlp.fn = "createTriangles") =>
        LET cells == hlp.cells
            n == Len(cells)
            r == hlp.res
            at(k) == k + Cardinality(QuadsUpTo(cells, k - 1))
        IN  /\ Len(r.triangles) = n + Cardinality(QuadsUpTo(cells, n))
            /\ Len(r.dataIdx) = Len(r.triangles)
            /\ \A k \in 1 .. n :
                 /\ r.triangles[at(k)]
                      = << cells[k].nodes[1], cells[k].nodes[2],
                           cells[k].nodes[3] >>
                 /\ r.dataIdx[at(k)] = cells[k].id
                 /\ Len(cells[k].nodes) = 4 =>
                      /\ r.triangles[at(k) + 1]
                           = << cells[k].nodes[1], cells[k].nodes[3],
                                cells[k].nodes[4] >>
                      /\ r.dataIdx[at(k) + 1] = cells[k].id
            /\ (hlp.data.given /\ Len(hlp.data.val) = n) =>
                 /\ Len(r.z.val) = Len(r.triangles)
                 /\ \A t \in 1 .. Len(r.triangles) :
                      r.z.val[t] = hlp.data.val[r.dataIdx[t] + 1]

\* a quadrilateral followed by a triangle, with different values for the
\* two cells
C21_Witness ==
    /\ hlp.pc = "done" /\ hlp.fn = "createTriangles"
    /\ Len(hlp.cells) = 2
    /\ Len(hlp.cells[1].nodes) = 4 /\ Len(hlp.cells[2].nodes) = 3
    /\ hlp.data.given /\ Len(hlp.data.val) = 2
    /\ hlp.data.val[1] # hlp.data.val[2]
    /\ hlp.res.z.val = << hlp.data.val[1], hlp.data.val[1], hlp.data.val[2] >>

\* C22: every pick event handled by onPick ends with update(), and after
\* any sequence of pick and key events (no display method having been
\* called from outside) the display matches cellID: the highlight and the
\* annotation are visible exactly when cellID > -1 and then describe the
\* cell cellID.
C22_DisplayMatchesCellID ==
    \A i \in DOMAIN cbs.b :
      LET b == cbs.b[i]
      IN  (b.made /\ ~cbs.direct) =>
            /\ b.last.kind = "pick" => b.last.updated
            /\ IF b.cellID > -1 THEN Shown(b) ELSE Hidden(b)

\* C23: between the first and the last reset loop of a pass no visited
\* cell becomes unvisited again, the steps of the driver outside the two
\* reset loops write no flag at all, and a call in quiver mode leaves
\* every flag as it found it.
C23_FlagsMonotone ==
    [][/\ pc \in {"seed", "fallback", "trace"} =>
            \A c \in DOMAIN valid : ~valid[c] => ~valid'[c]
       /\ pc \in {"start", "seed", "fallback"} => valid' = valid
       /\ quiver => valid' = valid]_vars

\* the driver is in its last loop over the cells after a streamline has
\* marked the first cell visited and before the final reset
C23_Witness ==
    /\ pc = "fallback"
    /\ idx > 0
    /\ ~valid[0]
    /\ lines # << >>

\* C24: drawStreamLine_ adds the line collection exactly for a streamline
\* of more than 2 points and returns None otherwise; it adds the arrow
\* exactly for a streamline of more than 3 points whose magnitude at the
\* middle sample is strictly above dropTol; and for every length n > 3 the
\* indices read, mid = floor(n/2) and mid + 1, are indices of x, y and v.
C24_LinesAndArrow ==
    rend.pc = "drawn" =>
        LET n == Len(rend.x)
        IN  /\ Len(rend.collections) = (IF n > 2 THEN 1 ELSE 0)
            /\ rend.result = (IF n > 2 THEN "lines" ELSE "none")
            /\ Len(rend.patches)
                 = (IF n > 3 /\ rend.v[(n \div 2) + 1] > rend.dropTol
                    THEN 1 ELSE 0)
            /\ n > 3 =>
                 /\ MidIndex(n) = n \div 2
                 /\ 0 <= MidIndex(n) /\ MidIndex(n) + 1 <= n - 1
                 /\ Len(rend.y) = n /\ Len(rend.v) = n

\* a streamline of five points is drawn with its arrow: the magnitude at
\* the middle index 2 is above dropTol, the one at index 3 is not
C24_Witness ==
    /\ rend.pc = "drawn"
    /\ Len(rend.x) = 5
    /\ rend.v[3] > rend.dropTol
    /\ rend.v[4] <= rend.dropTol
    /\ Len(rend.patches) = 1
    /\ rend.result = "lines"

====
